---- MODULE Spec2Model ----
(***************************************************************************)
(* Model of src/rbac_resourcetree.mjs: Permission, Target, User, Role and  *)
(* RBACUtil.  JavaScript strings that the code inspects character by       *)
(* character (Target segments and uris) are sequences of one-character     *)
(* strings; permission names are TLA+ strings wrapped in a value record    *)
(* that keeps the JavaScript type, so that ===, != and truthiness are      *)
(* computed as the language computes them.                                 *)
(*                                                                         *)
(* Fields no method reads (Role.roleDescription, Role.target,              *)
(* User.userName) are left out.  A permissions array is an object on a     *)
(* heap: the Role constructor stores the reference it is given, push       *)
(* changes the array in place and filter makes a new one.                  *)
(* src/unnamed/part_000 is an earlier sketch of the same classes whose     *)
(* Role and Target constructors assign to getter-only properties; it is    *)
(* not modelled.                                                           *)
(***************************************************************************)
EXTENDS Naturals, Sequences, FiniteSets

VARIABLES scopes, heap, roles, user, last

vars == <<scopes, heap, roles, user, last>>

(***************************************************************************)
(* Bounds of the model.                                                    *)
(***************************************************************************)
\* characters of a segment handed to the Target constructor
MaxSegLen == 3
\* arguments of one Target constructor call
MaxSegs == 2
\* entries of a permissions array literal handed to the Role constructor
MaxPerms == 2
\* entries of the roles array handed to the User constructor
MaxUserRoles == 2

\* the characters segment strings are made of; "/" is the uri separator
Chars == {"a", "/"}

(***************************************************************************)
(* class Permission                                                        *)
(***************************************************************************)
CREATE == "CREATE"
READ == "READ"
UPDATE == "UPDATE"
DELETE == "DELETE"
SHARE == "SHARE"
ALL == "ALL"

Permission == {CREATE, READ, UPDATE, DELETE, SHARE, ALL}

(***************************************************************************)
(* JavaScript values that reach a permission parameter: a primitive        *)
(* string, undefined, or a String object (new String(s)), which is loosely *)
(* but not strictly equal to the primitive s.                              *)
(***************************************************************************)
Str(s) == [t |-> "string", s |-> s]
Undefined == [t |-> "undefined", s |-> ""]
Boxed(s) == [t |-> "object", s |-> s]
True == [t |-> "boolean", s |-> "true"]
False == [t |-> "boolean", s |-> "false"]

\* ToBoolean
Truthy(v) ==
    CASE v.t = "string" -> v.s # ""
      [] v.t = "undefined" -> FALSE
      [] v.t = "boolean" -> v.s = "true"
      [] OTHER -> TRUE

\* a === b, for b a primitive string: no conversion
StrictEq(a, s) == a.t = "string" /\ a.s = s

\* a == b, for b a primitive string: an object is converted to its primitive
LooseEq(a, s) == a.t \in {"string", "object"} /\ a.s = s

\* v[key] for key one of permission, targetType: neither a string nor a String
\* object has such a property
Prop(v, key) == Undefined

(***************************************************************************)
(* Character strings                                                       *)
(***************************************************************************)
Strs(n) == UNION {[1..k -> Chars] : k \in 0..n}

Sep == <<"/">>

Scheme == <<"t", "a", "r", "g", "e", "t", ":", "/", "/">>

\* Array.prototype.join("/")
RECURSIVE Join(_)
Join(level) ==
    IF Len(level) = 0 THEN <<>>
    ELSE IF Len(level) = 1 THEN level[1]
    ELSE level[1] \o Sep \o Join(Tail(level))

\* String.prototype.split("/")
RECURSIVE Split(_)
Split(s) ==
    IF \A i \in 1..Len(s) : s[i] # "/" THEN <<s>>
    ELSE LET i == CHOOSE j \in 1..Len(s) :
                      s[j] = "/" /\ \A k \in 1..(j - 1) : s[k] # "/"
         IN  <<SubSeq(s, 1, i - 1)>> \o Split(SubSeq(s, i + 1, Len(s)))

\* s.indexOf(pre) === 0
IndexOfIsZero(s, pre) ==
    Len(pre) <= Len(s) /\ SubSeq(s, 1, Len(pre)) = pre

(***************************************************************************)
(* class Target                                                            *)
(***************************************************************************)
\* an argument of the Target constructor: a string or some other value
SArg(s) == [t |-> "string", s |-> s]
NArg == [t |-> "number", s |-> <<>>]

NoTarget == [ok |-> FALSE, level |-> <<>>, uri |-> <<>>]

TargetThrowsNoArgs(argStrings) == Len(argStrings) = 0

TargetThrowsNotAllStrings(argStrings) ==
    LET IsString(i) == argStrings[i].t = "string"
    IN  \E i \in 1..Len(argStrings) : ~IsString(i)

\* new Target(...argStrings): the object, or NoTarget when the constructor throws
TargetCtor(argStrings) ==
    IF TargetThrowsNoArgs(argStrings) \/ TargetThrowsNotAllStrings(argStrings)
    THEN NoTarget
    ELSE LET level == [i \in 1..Len(argStrings) |-> argStrings[i].s]
         IN  [ok |-> TRUE, level |-> level, uri |-> Scheme \o Join(level)]

\* every list of up to MaxSegs constructor arguments
ArgLists ==
    LET Args == {SArg(s) : s \in Strs(MaxSegLen)} \cup {NArg}
    IN  UNION {[1..k -> Args] : k \in 0..MaxSegs}

(***************************************************************************)
(* Values that reach a target parameter: undefined, a string, a Target     *)
(* instance, an array, or some other value (a number).                     *)
(***************************************************************************)
UndefT == [t |-> "undefined", s |-> <<>>, obj |-> NoTarget, items |-> <<>>]
StrT(s) == [t |-> "string", s |-> s, obj |-> NoTarget, items |-> <<>>]
ObjT(o) == [t |-> "Target", s |-> <<>>, obj |-> o, items |-> <<>>]
ArrT(items) == [t |-> "array", s |-> <<>>, obj |-> NoTarget, items |-> items]
NumT == [t |-> "number", s |-> <<>>, obj |-> NoTarget, items |-> <<>>]

\* ToBoolean of such a value: !target is ~TruthyT(target)
TruthyT(v) ==
    CASE v.t = "undefined" -> FALSE
      [] v.t = "string" -> v.s # <<>>
      [] OTHER -> TRUE

\* target instanceof Target
IsTarget(v) == v.t = "Target"

\* new Target("x", "y", ...) from plain segment strings
Scope(level) == TargetCtor([i \in 1..Len(level) |-> SArg(level[i])])

(***************************************************************************)
(* Values that reach the permissions parameter of the Role constructor:    *)
(* undefined (the default [] applies), null, a fresh array literal, or an  *)
(* array object the caller has already handed to another Role.             *)
(***************************************************************************)
PUndef == [t |-> "undefined", items |-> <<>>, ref |-> 0]
PNull == [t |-> "null", items |-> <<>>, ref |-> 0]
PArr(items) == [t |-> "array", items |-> items, ref |-> 0]
PRef(id) == [t |-> "array", items |-> <<>>, ref |-> id]

(***************************************************************************)
(* Objects                                                                 *)
(***************************************************************************)
\* the caller's variables that hold Role objects
RoleRefs == {"roleA", "roleB"}

\* addresses of permissions arrays; a role's permissions field holds one, or
\* NullRef when the field is not an array
ArrayIds == 1..Cardinality(RoleRefs)

NullRef == 0

NoRole ==
    [exists |-> FALSE, roleId |-> "", roleName |-> "", targets |-> <<>>,
     permissions |-> NullRef]

NoUser == [exists |-> FALSE, userId |-> "", roles |-> <<>>]

\* the outcome of a call: a returned value or a thrown error
Return(v) == [st |-> "return", val |-> v, err |-> ""]
Throw(e) == [st |-> "throw", val |-> Undefined, err |-> e]

\* the value of a permissions field at the time of a call
NotArray == [arr |-> FALSE, items |-> <<>>]
Array(items) == [arr |-> TRUE, items |-> items]

NoCall ==
    [op |-> "", ref |-> "", perm |-> Undefined, target |-> UndefT,
     before |-> NotArray, out |-> Return(Undefined)]

Call(op, ref, perm, target, before, out) ==
    [op |-> op, ref |-> ref, perm |-> perm, target |-> target,
     before |-> before, out |-> out]

\* this.permissions of the role held in h, as a value
PermissionsOf(h) ==
    IF roles[h].permissions = NullRef THEN NotArray
    ELSE Array(heap[roles[h].permissions])

\* arrays some role still references; the others are garbage
Live(rs) == {rs[h].permissions : h \in {g \in RoleRefs : rs[g].exists}} \ {NullRef}

\* an address for a newly created array, given the roles after the call
Fresh(rs) == CHOOSE id \in ArrayIds \ Live(rs) : \A j \in ArrayIds \ Live(rs) : id <= j

\* the heap with garbage collected
Collect(hp, rs) == [id \in ArrayIds |-> IF id \in Live(rs) THEN hp[id] ELSE <<>>]

Init ==
    /\ scopes = <<>>
    /\ heap = [id \in ArrayIds |-> <<>>]
    /\ roles = [h \in RoleRefs |-> NoRole]
    /\ user = NoUser
    /\ last = NoCall

(***************************************************************************)
(* class Role                                                              *)
(***************************************************************************)
\* the targets field the constructor computes, or the error it throws
RoleTargets(target) ==
    IF ~TruthyT(target) THEN Throw("target must be provided")
    ELSE IF target.t = "string"
    THEN Return(<<Scope(Split(target.s))>>)
    ELSE IF IsTarget(target)
    THEN Return(<<target.obj>>)
    ELSE IF target.t = "array"
            /\ \A i \in 1..Len(target.items) : target.items[i].t = "string"
    THEN Return([i \in 1..Len(target.items) |-> Scope(Split(target.items[i].s))])
    ELSE IF target.t = "array"
            /\ \A i \in 1..Len(target.items) : IsTarget(target.items[i])
    THEN Return([i \in 1..Len(target.items) |-> target.items[i].obj])
    ELSE Throw("Invalid target")

\* h = new Role(roleId, roleName, roleDescription, target, permissions)
RoleCtor(h, roleId, roleName, target, permissions) ==
    /\ ~roles[h].exists
    /\ permissions.ref # 0 => permissions.ref \in Live(roles)
    /\ LET tg == RoleTargets(target)
           out == IF ~Truthy(roleId) THEN Throw("roleId must be provided")
                  ELSE IF ~Truthy(roleName) THEN Throw("roleName must be provided")
                  ELSE IF tg.st = "throw" THEN tg
                  ELSE Return(Undefined)
           id == IF permissions.t = "null" THEN NullRef
                 ELSE IF permissions.ref # 0 THEN permissions.ref
                 ELSE Fresh(roles)
           obj == [exists |-> TRUE, roleId |-> roleId.s, roleName |-> roleName.s,
                   targets |-> tg.val, permissions |-> id]
       IN  /\ last' = Call("Role", h, Undefined, target, NotArray, out)
           /\ IF out.st = "throw"
              THEN UNCHANGED <<roles, heap>>
              ELSE /\ roles' = [roles EXCEPT ![h] = obj]
                   /\ heap' = IF id = NullRef \/ permissions.ref # 0 THEN heap
                              ELSE [heap EXCEPT ![id] = permissions.items]
    /\ UNCHANGED <<scopes, user>>

\* permission is one of the six statics of Permission, compared with !==
IsPermissionStrict(permission) == \E c \in Permission : StrictEq(permission, c)

\* permission is one of the six statics of Permission, compared with !=
IsPermissionLoose(permission) == \E c \in Permission : LooseEq(permission, c)

\* Array.prototype.find: the first element the callback accepts, else
\* undefined; hits are the indexes of the elements the callback accepts
Find(items, hits) ==
    IF hits = {} THEN Undefined
    ELSE Str(items[CHOOSE i \in hits : \A j \in hits : i <= j])

\* the callback of addPermission's find:
\* p.permission === permission.permission && p.targetType === permission.targetType
SamePermission(p, permission) ==
    /\ Prop(Str(p), "permission") = Prop(permission, "permission")
    /\ Prop(Str(p), "targetType") = Prop(permission, "targetType")

\* the callback of removePermission's filter: its body is a block without a
\* return statement, so it yields undefined for every element
KeepPermission(p, permission) == Undefined

\* the outcome of this.addPermission(permission) on the role held in h
AddOutcome(h, permission) ==
    LET items == PermissionsOf(h).items
        same == {i \in 1..Len(items) : SamePermission(items[i], permission)}
    IN  IF ~Truthy(permission) THEN Throw("permission is null or undefined")
        ELSE IF ~IsPermissionStrict(permission) THEN Throw("Invalid permission")
        ELSE IF ~PermissionsOf(h).arr THEN Throw("TypeError")
        ELSE IF Truthy(Find(items, same))
        THEN Throw("permission already exists in role")
        ELSE Return(Undefined)

\* h.addPermission(permission)
AddPermission(h, permission) ==
    /\ roles[h].exists
    /\ LET out == AddOutcome(h, permission)
       IN  /\ last' = Call("addPermission", h, permission, UndefT, PermissionsOf(h), out)
           /\ heap' = IF out.st = "throw" THEN heap
                      ELSE [heap EXCEPT ![roles[h].permissions] = Append(@, permission.s)]
    /\ UNCHANGED <<scopes, roles, user>>

\* the outcome of this.removePermission(permission) on the role held in h:
\* reading permission.permission throws when permission is undefined, which
\* happens as soon as the callback runs on a first element
RemoveOutcome(h, permission) ==
    IF ~PermissionsOf(h).arr THEN Throw("TypeError")
    ELSE IF PermissionsOf(h).items # <<>> /\ permission.t = "undefined"
    THEN Throw("TypeError")
    ELSE Return(Undefined)

\* h.removePermission(permission): filter builds a new array
RemovePermission(h, permission) ==
    /\ roles[h].exists
    /\ LET out == RemoveOutcome(h, permission)
           Keep(p) == Truthy(KeepPermission(p, permission))
           rs == [roles EXCEPT ![h].permissions = NullRef]
           id == Fresh(rs)
       IN  /\ last' = Call("removePermission", h, permission, UndefT, PermissionsOf(h), out)
           /\ IF out.st = "throw"
              THEN UNCHANGED <<roles, heap>>
              ELSE /\ roles' = [roles EXCEPT ![h].permissions = id]
                   /\ heap' = Collect([heap EXCEPT ![id] =
                                          SelectSeq(PermissionsOf(h).items, Keep)],
                                      roles')
    /\ UNCHANGED <<scopes, user>>

\* this.targets.find(rt => target.uri.indexOf(rt.uri) === 0) found a target
TargetMatch(role, target) ==
    \E i \in 1..Len(role.targets) : IndexOfIsZero(target.uri, role.targets[i].uri)

\* C3 mutant: a callback true of every element, as addPermission's is
PermissionMatchAnyElement(items, permission) ==
    Find(items, {i \in 1..Len(items) :
                    Prop(Str(items[i]), "permission") = Prop(permission, "permission")})

\* this.permissions.find(p => p === permission || p === Permission.ALL)
PermissionMatch(items, permission) ==
    Find(items, {i \in 1..Len(items) : StrictEq(permission, items[i]) \/ items[i] = ALL})

\* the outcome of role.authorize(permission, target), permissions being the
\* value of the role's permissions field
AuthorizeOutcome(role, permissions, permission, target) ==
    IF ~TruthyT(target) THEN Throw("target must be provided")
    ELSE IF ~IsTarget(target) THEN Throw("target must be an instance of Target")
    ELSE IF ~Truthy(permission) THEN Throw("permission must be provided")
    ELSE IF ~IsPermissionLoose(permission) THEN Throw("Invalid permission")
    ELSE IF ~TargetMatch(role, target.obj) THEN Return(Undefined)
    ELSE IF ~permissions.arr THEN Throw("TypeError")
    ELSE Return(PermissionMatch(permissions.items, permission))

\* h.authorize(permission, target)
Authorize(h, permission, target) ==
    /\ roles[h].exists
    /\ last' = Call("authorize", h, permission, target, PermissionsOf(h),
                    AuthorizeOutcome(roles[h], PermissionsOf(h), permission, target))
    /\ UNCHANGED <<scopes, heap, roles, user>>

(***************************************************************************)
(* class User                                                              *)
(***************************************************************************)
\* values that reach the roles parameter: undefined, an array whose elements
\* are Role objects (named by the variable that holds them) or other values
\* ("other"), or a value that is not an array
RUndef == [t |-> "undefined", items |-> <<>>]
RArr(items) == [t |-> "array", items |-> items]
RObj == [t |-> "object", items |-> <<>>]

\* r instanceof Role
IsRole(r) == r \in RoleRefs

UserOutcome(userId, rolesArg) ==
    IF ~Truthy(userId) THEN Throw("userId must be provided")
    ELSE IF rolesArg.t = "undefined" THEN Throw("roles must be provided")
    ELSE IF rolesArg.t # "array" THEN Throw("roles must be an array")
    ELSE IF \E i \in 1..Len(rolesArg.items) : ~IsRole(rolesArg.items[i])
    THEN Throw("all roles must be instances of Role class")
    ELSE Return(Undefined)

\* user = new User(userId, userName, roles)
UserCtor(userId, rolesArg) ==
    /\ ~user.exists
    /\ \A i \in 1..Len(rolesArg.items) :
          IsRole(rolesArg.items[i]) => roles[rolesArg.items[i]].exists
    /\ LET out == UserOutcome(userId, rolesArg)
       IN  /\ last' = Call("User", "", Undefined, UndefT, NotArray, out)
           /\ user' = IF out.st = "throw" THEN user
                      ELSE [exists |-> TRUE, userId |-> userId.s, roles |-> rolesArg.items]
    /\ UNCHANGED <<scopes, heap, roles>>

(***************************************************************************)
(* class RBACUtil                                                          *)
(***************************************************************************)
\* C2 mutant: the loop returns what the first role decides
AuthorizeLoopFirstRole(rs, permission, target) ==
    IF rs = <<>> THEN Return(False)
    ELSE LET r == AuthorizeOutcome(roles[Head(rs)], PermissionsOf(Head(rs)),
                                   permission, target)
         IN  IF r.st = "throw" THEN r
             ELSE IF Truthy(r.val) THEN Return(True)
             ELSE Return(False)

\* for (let role of user.roles) if (role.authorize(permission, target)) return true;
\* return false -- an error thrown by role.authorize leaves the loop
RECURSIVE AuthorizeLoop(_, _, _)
AuthorizeLoop(rs, permission, target) ==
    IF rs = <<>> THEN Return(False)
    ELSE LET r == AuthorizeOutcome(roles[Head(rs)], PermissionsOf(Head(rs)),
                                   permission, target)
         IN  IF r.st = "throw" THEN r
             ELSE IF Truthy(r.val) THEN Return(True)
             ELSE AuthorizeLoop(Tail(rs), permission, target)

\* the outcome of RBACUtil.authorizeUser(u, permission, target); u is "user"
\* for the User object, or names a value that is not a User
AuthorizeUserOutcome(u, permission, target) ==
    IF u # "user"
    THEN Throw("user must be provided and must be an instance of User")
    ELSE IF ~TruthyT(target) \/ ~IsTarget(target)
    THEN Throw("target must be provided and must be an instance of Target")
    ELSE IF ~Truthy(permission) \/ ~IsPermissionLoose(permission)
    THEN Throw("Invalid permission")
    ELSE AuthorizeLoop(user.roles, permission, target)

\* RBACUtil.authorizeUser(u, permission, target)
AuthorizeUser(u, permission, target) ==
    /\ u = "user" => user.exists
    /\ last' = Call("authorizeUser", u, permission, target, NotArray,
                    AuthorizeUserOutcome(u, permission, target))
    /\ UNCHANGED <<scopes, heap, roles, user>>

(***************************************************************************)
(* Inputs                                                                  *)
(***************************************************************************)
SeqsUpTo(S, n) == UNION {[1..k -> S] : k \in 0..n}

a == <<"a">>
aa == <<"a", "a">>

\* roleId, roleName, userId
IdInputs == {Str("admin"), Str("")}

\* permission arguments: permissions (READ, CREATE and the wildcard ALL), a
\* string that is no permission, a missing argument, and a String object
PermissionArgs ==
    {Str(READ), Str(CREATE), Str(ALL), Str("EXECUTE"), Undefined, Boxed(READ)}

\* elements of the permissions array literals in the Role life cycle
MutationElems == {READ, "EXECUTE"}

PermissionsInputs ==
    {PUndef, PNull} \cup {PArr(items) : items \in SeqsUpTo(MutationElems, MaxPerms)}
        \cup {PRef(id) : id \in ArrayIds}

\* target arguments of the Role constructor: every form it tells apart
RoleTargetInputs ==
    {UndefT, NumT, StrT(<<>>), StrT(a), StrT(<<"a", "/", "a">>), ObjT(Scope(<<a>>)),
     ArrT(<<>>), ArrT(<<StrT(a)>>), ArrT(<<ObjT(Scope(<<a>>))>>),
     ArrT(<<StrT(a), ObjT(Scope(<<a>>))>>)}

\* target arguments of authorize in the Role life cycle
RequestInputs == {UndefT, ObjT(Scope(<<a>>)), ObjT(Scope(<<a, a>>))}

(***************************************************************************)
(* The Role life cycle: construction, mutation and authorization           *)
(***************************************************************************)
NewRole ==
    \E h \in RoleRefs, roleId \in IdInputs, roleName \in IdInputs,
       target \in RoleTargetInputs, permissions \in PermissionsInputs :
        RoleCtor(h, roleId, roleName, target, permissions)

CallAddPermission ==
    \E h \in RoleRefs, permission \in PermissionArgs : AddPermission(h, permission)

CallRemovePermission ==
    \E h \in RoleRefs, permission \in PermissionArgs : RemovePermission(h, permission)

CallAuthorize ==
    \E h \in RoleRefs, permission \in PermissionArgs, target \in RequestInputs :
        Authorize(h, permission, target)

Next == NewRole \/ CallAddPermission \/ CallRemovePermission \/ CallAuthorize

Spec == Init /\ [][Next]_vars

(***************************************************************************)
(* Role.authorize over the scopes of up to MaxSegs segments                *)
(***************************************************************************)
\* well-formed segments: non-empty, without the separator
Segments == {a, aa}

ScopeInputs == {Scope(level) : level \in SeqsUpTo(Segments, MaxSegs) \ {<<>>}}

\* a role owns one scope, or two top-level scopes
OwnedInputs ==
    {ObjT(t) : t \in ScopeInputs}
        \cup {ArrT(<<ObjT(Scope(<<s1>>)), ObjT(Scope(<<s2>>))>>) : s1, s2 \in Segments}

GrantedInputs ==
    {PNull} \cup {PArr(items) : items \in SeqsUpTo({READ, ALL}, MaxPerms)}

ScopeRequests == {ObjT(t) : t \in ScopeInputs} \cup {UndefT, StrT(a)}

AuthNewRole ==
    \E target \in OwnedInputs, permissions \in GrantedInputs :
        RoleCtor("roleA", Str("admin"), Str("Admin"), target, permissions)

AuthAuthorize ==
    \E permission \in PermissionArgs, target \in ScopeRequests :
        Authorize("roleA", permission, target)

NextAuth == AuthNewRole \/ AuthAuthorize

SpecAuth == Init /\ [][NextAuth]_vars

(***************************************************************************)
(* RBACUtil.authorizeUser over users of up to MaxUserRoles roles           *)
(***************************************************************************)
FacadeOwned == {ObjT(Scope(<<a>>)), ObjT(Scope(<<aa>>))}

FacadeGranted == {PUndef, PNull, PArr(<<READ>>), PArr(<<ALL>>)}

FacadeRequests == {UndefT, ObjT(Scope(<<a>>)), ObjT(Scope(<<aa>>)), ObjT(Scope(<<a, a>>))}

RolesInputs ==
    {RUndef, RObj} \cup {RArr(items) : items \in SeqsUpTo(RoleRefs \cup {"other"}, MaxUserRoles)}

FacadeNewRole ==
    \E h \in RoleRefs, target \in FacadeOwned, permissions \in FacadeGranted :
        RoleCtor(h, Str("admin"), Str("Admin"), target, permissions)

NewUser ==
    \E userId \in IdInputs, rolesArg \in RolesInputs : UserCtor(userId, rolesArg)

CallAuthorizeUser ==
    \E u \in {"user", "undefined"}, permission \in PermissionArgs, target \in FacadeRequests :
        AuthorizeUser(u, permission, target)

NextFacade == FacadeNewRole \/ NewUser \/ CallAuthorizeUser

SpecFacade == Init /\ [][NextFacade]_vars

(***************************************************************************)
(* The Target constructor over every argument list within the bounds       *)
(***************************************************************************)
\* scopes holds what two constructor calls produced
NewTarget(argStrings) ==
    /\ Len(scopes) < 2
    /\ scopes' = Append(scopes, TargetCtor(argStrings))
    /\ UNCHANGED <<heap, roles, user, last>>

CallTarget == \E argStrings \in ArgLists : NewTarget(argStrings)

NextTarget == CallTarget

SpecTarget == Init /\ [][NextTarget]_vars

(***************************************************************************)
(* Notions the properties are stated in                                    *)
(***************************************************************************)
\* the segment sequence l1 is a whole-segment prefix of l2
IsSegmentPrefix(l1, l2) == Len(l1) <= Len(l2) /\ SubSeq(l2, 1, Len(l1)) = l1

\* some scope the role owns contains or equals the scope t
Covers(role, t) ==
    \E i \in 1..Len(role.targets) : IsSegmentPrefix(role.targets[i].level, t.level)

\* the granted set of a permissions field
Granted(permissions) == {permissions.items[i] : i \in 1..Len(permissions.items)}

\* the value is exactly one of CREATE, READ, UPDATE, DELETE, SHARE, ALL
ValidAction(v) == v.t = "string" /\ v.s \in Permission

\* the call returned a truthy value
Authorized(out) == out.st = "return" /\ Truthy(out.val)

\* the role held in h authorizes the request
RoleAuthorizes(h, permission, target) ==
    Authorized(AuthorizeOutcome(roles[h], PermissionsOf(h), permission, target))

\* every role of the user has a granted set, that is an array of permissions
WellFormedUser ==
    user.exists /\ \A i \in 1..Len(user.roles) : PermissionsOf(user.roles[i]).arr

\* the error a call raises for an action it rejects
InvalidActionErrors ==
    {"Invalid permission", "permission is null or undefined", "permission must be provided"}

(***************************************************************************)
(* Properties                                                              *)
(***************************************************************************)
\* C1: Role.authorize(action, T) is not truthy whenever no scope the role owns
\* is a whole-segment prefix of T, whatever the role grants (a role owning only
\* Scope("job1") does not authorize on Scope("job12")).  Checked under SpecAuth.
C1_ScopeRequired ==
    (/\ last.op = "authorize"
     /\ IsTarget(last.target)
     /\ ~Covers(roles[last.ref], last.target.obj))
        => ~Authorized(last.out)

\* C2: for a well-formed user, a valid action and a Target, authorizeUser returns
\* true when some role of the user authorizes the request and false otherwise,
\* wherever that role stands in the roles array; with no roles it returns false.
\* Checked under SpecFacade.
C2_AnyRole ==
    (/\ last.op = "authorizeUser"
     /\ last.ref = "user"
     /\ ValidAction(last.perm)
     /\ IsTarget(last.target)
     /\ WellFormedUser)
        => last.out =
              Return(IF \E i \in 1..Len(user.roles) :
                           RoleAuthorizes(user.roles[i], last.perm, last.target)
                     THEN True ELSE False)

\* C2 witness: a user of two distinct roles, the first of which does not
\* authorize the request while the second does, was authorized.
C2_Witness ==
    /\ last.op = "authorizeUser"
    /\ last.ref = "user"
    /\ ValidAction(last.perm)
    /\ WellFormedUser
    /\ Len(user.roles) = 2
    /\ user.roles[1] # user.roles[2]
    /\ ~RoleAuthorizes(user.roles[1], last.perm, last.target)
    /\ RoleAuthorizes(user.roles[2], last.perm, last.target)
    /\ last.out = Return(True)

\* C3: Role.authorize is not truthy whenever the requested action is not in the
\* role's granted set and the granted set does not contain ALL, for every
\* requested scope.  Checked under SpecAuth.
C3_ActionRequired ==
    (/\ last.op = "authorize"
     /\ ~(last.perm.t = "string" /\ last.perm.s \in Granted(last.before))
     /\ ALL \notin Granted(last.before))
        => ~Authorized(last.out)

\* C3 witness: a role that owns the requested scope and grants READ only was
\* asked for CREATE on it and returned a falsy value.
C3_Witness ==
    /\ last.op = "authorize"
    /\ IsTarget(last.target)
    /\ Covers(roles[last.ref], last.target.obj)
    /\ last.before.arr
    /\ Granted(last.before) = {READ}
    /\ last.perm = Str(CREATE)
    /\ last.out = Return(Undefined)

\* C4: for every User the constructor accepts, every action of the enumeration
\* and every Target, authorizeUser returns true or false and never raises.
\* Checked under SpecFacade.
C4_NeverRaises ==
    (/\ last.op = "authorizeUser"
     /\ last.ref = "user"
     /\ ValidAction(last.perm)
     /\ IsTarget(last.target))
        => last.out \in {Return(True), Return(False)}

\* C5: addPermission(a) with a valid action a raises the duplicate error if and
\* only if a is already granted; otherwise it succeeds and the granted set
\* afterwards is the previous set plus a.
C5_AddPermission ==
    (/\ last.op = "addPermission"
     /\ ValidAction(last.perm)
     /\ last.before.arr)
        => IF last.perm.s \in Granted(last.before)
           THEN /\ last.out = Throw("permission already exists in role")
                /\ PermissionsOf(last.ref) = last.before
           ELSE /\ last.out.st = "return"
                /\ Granted(PermissionsOf(last.ref))
                      = Granted(last.before) \cup {last.perm.s}

\* C6: removePermission(a) leaves the granted set equal to the previous set
\* without a, and raises no error.
C6_RemovePermission ==
    (/\ last.op = "removePermission"
     /\ ValidAction(last.perm)
     /\ last.before.arr)
        => /\ last.out.st = "return"
           /\ Granted(PermissionsOf(last.ref)) = Granted(last.before) \ {last.perm.s}

\* C7: after construction and any sequence of addPermission and
\* removePermission calls, a role's granted set has no duplicate entry and
\* holds only CREATE, READ, UPDATE, DELETE, SHARE, ALL.
C7_GrantedSet ==
    \A h \in RoleRefs :
        (roles[h].exists /\ PermissionsOf(h).arr)
            => LET items == PermissionsOf(h).items
               IN  /\ \A i, j \in 1..Len(items) : items[i] = items[j] => i = j
                   /\ \A i \in 1..Len(items) : items[i] \in Permission

\* C8: addPermission, removePermission, authorize and authorizeUser raise an
\* invalid-action error instead of completing when the action is not exactly
\* one of CREATE, READ, UPDATE, DELETE, SHARE, ALL (the other arguments valid).
C8_InvalidActionRejected ==
    (/\ last.op \in {"addPermission", "removePermission", "authorize", "authorizeUser"}
     /\ ~ValidAction(last.perm)
     /\ last.op \in {"addPermission", "removePermission"} => last.before.arr
     /\ last.op \in {"authorize", "authorizeUser"} => IsTarget(last.target)
     /\ last.op = "authorizeUser" => last.ref = "user")
        => /\ last.out.st = "throw"
           /\ last.out.err \in InvalidActionErrors

\* C9: constructing a Role with zero owned scopes (a missing target, an empty
\* string, an empty list) is rejected, so every Role owns at least one scope.
C9_AtLeastOneScope ==
    /\ (last.op = "Role" /\ last.target \in {UndefT, StrT(<<>>), ArrT(<<>>)})
          => last.out.st = "throw"
    /\ \A h \in RoleRefs : roles[h].exists => Len(roles[h].targets) >= 1

\* C10: for every two Targets the constructor accepts, distinct segment
\* sequences have distinct uris (no accepted segment being empty or holding
\* the separator "/").  Checked under SpecTarget.
C10_UriInjective ==
    \A i, j \in 1..Len(scopes) :
        (scopes[i].ok /\ scopes[j].ok /\ scopes[i].level # scopes[j].level)
            => scopes[i].uri # scopes[j].uri

\* C11: a Role owns its granted set exclusively: addPermission or
\* removePermission applied to one Role leaves the granted set of every other
\* Role unchanged, however the two were constructed (also from the same
\* permissions array).
C11_ExclusiveGrantedSet ==
    [][\A h \in RoleRefs :
          (/\ last'.op \in {"addPermission", "removePermission"}
           /\ last'.ref # h
           /\ roles[h].exists)
              => PermissionsOf(h)' = PermissionsOf(h)]_vars

====
